---- MODULE Spec2Model ----
(***************************************************************************)
(* Model of punnet.py: PunnetGenerator.generate and the helpers it calls.  *)
(* A Python string is modelled as a sequence of one-character strings, a   *)
(* list as a sequence; Python indices are 0-based and are shifted by one   *)
(* where a sequence is addressed.                                          *)
(***************************************************************************)
EXTENDS Integers, Sequences, FiniteSets

\* ------------------------------------------------------------------ bounds
\* Largest number of loci of an input genotype.
MaxLoci == 3
\* Largest number of blanks around an input genotype.
MaxPad == 1

\* ------------------------------------------------------- characters, inputs
\* The characters of the inputs in ascending code-point order: blank, then
\* the uppercase letters, then the lowercase letters.
Chars == <<" ", "A", "B", "C", "D", "E", "a", "b", "c", "d", "e">>
Upper == <<"A", "B", "C", "D", "E">>
Lower == <<"a", "b", "c", "d", "e">>

\* Code-point rank of a character (the order Python compares characters by).
Ord(c) == CHOOSE i \in DOMAIN Chars : Chars[i] = c

\* The allele pairs tried at locus i: heterozygous and homozygous dominant,
\* and at the first locus also heterozygous with the recessive allele first.
LocusForms(i) ==
    IF i = 1
    THEN { <<Upper[i], Lower[i]>>, <<Upper[i], Upper[i]>>, <<Lower[i], Upper[i]>> }
    ELSE { <<Upper[i], Lower[i]>>, <<Upper[i], Upper[i]>> }

RECURSIVE Genotypes(_)
Genotypes(n) ==
    IF n = 0 THEN { <<>> }
    ELSE { g \o f : g \in Genotypes(n - 1), f \in LocusForms(n) }

\* Every prefix of a genotype of MaxLoci loci: the even lengths are the valid
\* genotypes of 0 .. MaxLoci loci, the odd lengths are malformed inputs.
Prefixes == { SubSeq(g, 1, n) : g \in Genotypes(MaxLoci), n \in 0 .. 2 * MaxLoci }

Spaces(n) == [i \in 1 .. n |-> " "]

\* The command-line arguments: a prefix with at most MaxPad blanks around it.
RawInputs ==
    { Spaces(p[1]) \o g \o Spaces(p[2]) :
        g \in Prefixes, p \in { q \in (0 .. MaxPad) \X (0 .. MaxPad) : q[1] + q[2] <= MaxPad } }

\* ---------------------------------------------------------- pure functions
\* str.strip(): the string without its leading and trailing whitespace.
RECURSIVE lstrip(_)
lstrip(s) == IF s # <<>> /\ Head(s) = " " THEN lstrip(Tail(s)) ELSE s

RECURSIVE rstrip(_)
rstrip(s) ==
    IF s # <<>> /\ s[Len(s)] = " " THEN rstrip(SubSeq(s, 1, Len(s) - 1)) ELSE s

strip(s) == rstrip(lstrip(s))

\* 2 ** n
RECURSIVE Pow2(_)
Pow2(n) == IF n = 0 THEN 1 ELSE 2 * Pow2(n - 1)

\* _is_even
is_even(num) == num % 2 = 0

\* _flip: 1 and 0 swapped (HeadersLoop raises its ValueError for other values).
flip(num) == IF num = 1 THEN 0 ELSE 1

\* The list index Python resolves i to in a list of n elements: a negative
\* index counts from the end. The result is outside 0 .. n-1 when Python
\* raises IndexError.
PyIndex(i, n) == IF i < 0 THEN i + n ELSE i

\* Variant of FlipTarget: the index written without its minus sign,
\* counters[back_counter].
FlipTargetPositive(back_counter, n) == PyIndex(back_counter, n)

\* counters[-back_counter]: the locus whose counter pair is flipped.
FlipTarget(back_counter, n) == PyIndex(-back_counter, n)

\* [list(geno[i:i + 2]) for i in range(0, len(geno), 2)]
gametes(geno) ==
    [i \in 1 .. (Len(geno) + 1) \div 2 |->
        SubSeq(geno, 2 * i - 1, IF 2 * i <= Len(geno) THEN 2 * i ELSE Len(geno))]

\* [[1, 0] for i in range(len(gametes))]
InitCounters(n) == [i \in 1 .. n |-> <<1, 0>>]

\* The inner loop over one counter pair: j runs over the VALUES of the pair,
\* and the allele gametes[i][j] is appended when array[j] == 1.
PairTerm(array, pair) ==
    LET pick(j) == IF array[j + 1] = 1 THEN <<pair[j + 1]>> ELSE <<>>
    IN  pick(array[1]) \o pick(array[2])

\* The term built from all counter pairs, in locus order.
RECURSIVE TermUpTo(_, _, _)
TermUpTo(cs, gs, n) ==
    IF n = 0 THEN <<>> ELSE TermUpTo(cs, gs, n - 1) \o PairTerm(cs[n], gs[n])

Term(cs, gs) == TermUpTo(cs, gs, Len(cs))

\* back_counter -= 1; if back_counter == -1: back_counter = len(gametes) - 1
NextBackCounter(back_counter, n) ==
    IF back_counter - 1 = -1 THEN n - 1 ELSE back_counter - 1

\* sorted(list(s)): the characters in ascending code-point order.
RECURSIVE InsertChar(_, _)
InsertChar(c, s) ==
    IF s = <<>> THEN <<c>>
    ELSE IF Ord(c) < Ord(Head(s)) THEN <<c>> \o s
    ELSE <<Head(s)>> \o InsertChar(c, Tail(s))

RECURSIVE sorted(_)
sorted(s) ==
    IF s = <<>> THEN <<>> ELSE InsertChar(s[Len(s)], sorted(SubSeq(s, 1, Len(s) - 1)))

\* Variant of Cell: the two gametes joined without sorting.
CellUnsorted(col, row) == col \o row

\* ''.join(sorted(list(column_headers[x] + row_headers[y])))
Cell(col, row) == sorted(col \o row)

\* Python's string comparison a < b.
RECURSIVE StrLess(_, _)
StrLess(a, b) ==
    IF b = <<>> THEN FALSE
    ELSE IF a = <<>> THEN TRUE
    ELSE IF Head(a) = Head(b) THEN StrLess(Tail(a), Tail(b))
    ELSE Ord(Head(a)) < Ord(Head(b))

\* Variant of ValidationError: the parity of each genotype is checked before
\* the two lengths are compared.
ValidationErrorParityFirst(len_mommy, len_daddy) ==
    IF len_mommy % 2 # 0 THEN "mommy_odd_length"
    ELSE IF len_daddy % 2 # 0 THEN "daddy_odd_length"
    ELSE IF len_mommy # len_daddy THEN "mismatched_length"
    ELSE IF len_mommy \div 2 < 1 THEN "genotype_count_less_than_one"
    ELSE "none"

\* Variant of ValidationError: the genotype count is compared with 0, not 1.
ValidationErrorZeroAllowed(len_mommy, len_daddy) ==
    IF len_mommy # len_daddy THEN "mismatched_length"
    ELSE IF len_mommy % 2 # 0 THEN "mommy_odd_length"
    ELSE IF len_daddy % 2 # 0 THEN "daddy_odd_length"
    ELSE IF len_mommy \div 2 < 0 THEN "genotype_count_less_than_one"
    ELSE "none"

\* The validation of generate: the error it raises, or "none".
ValidationError(len_mommy, len_daddy) ==
    IF len_mommy # len_daddy THEN "mismatched_length"
    ELSE IF len_mommy % 2 # 0 THEN "mommy_odd_length"
    ELSE IF len_daddy % 2 # 0 THEN "daddy_odd_length"
    ELSE IF len_mommy \div 2 < 1 THEN "genotype_count_less_than_one"
    ELSE "none"

\* The unset grid cell. A real cell holds at least two characters.
None == <<>>

\* [([None] * grid_size) for x in range(grid_size)]
EmptyGrid(grid_size) == [r \in 1 .. grid_size |-> [c \in 1 .. grid_size |-> None]]

\* Variant of Count: a key already in the dict is set to 1 again.
CountReset(stats, genotype) ==
    IF \E i \in DOMAIN stats : stats[i][1] = genotype
    THEN [i \in DOMAIN stats |->
            IF stats[i][1] = genotype THEN <<genotype, 1>> ELSE stats[i]]
    ELSE Append(stats, <<genotype, 1>>)

\* stats[genotype] += 1, or stats[genotype] = 1 for a new key. The dict is a
\* sequence of <<genotype, count>> in insertion order.
Count(stats, genotype) ==
    IF \E i \in DOMAIN stats : stats[i][1] = genotype
    THEN [i \in DOMAIN stats |->
            IF stats[i][1] = genotype THEN <<genotype, stats[i][2] + 1>> ELSE stats[i]]
    ELSE Append(stats, <<genotype, 1>>)

\* The place of an item in sorted(stats.items()): the keys of a dict are
\* distinct, so an item comes after exactly the items with a smaller key.
SortedPlace(items, i) ==
    1 + Cardinality({ j \in DOMAIN items : StrLess(items[j][1], items[i][1]) })

\* Variant of SortItems: the dict's items in insertion order.
SortItemsInsertionOrder(items) == items

\* sorted(stats.items()): the items in ascending key order.
SortItems(items) ==
    [p \in DOMAIN items |-> items[CHOOSE i \in DOMAIN items : SortedPlace(items, i) = p]]

\* sum(stats.values()), added up over the items lo .. hi.
RECURSIVE SumRange(_, _, _)
SumRange(items, lo, hi) ==
    IF lo > hi THEN 0
    ELSE IF lo = hi THEN items[lo][2]
    ELSE LET mid == (lo + hi) \div 2
         IN  SumRange(items, lo, mid) + SumRange(items, mid + 1, hi)

SumCounts(items) == SumRange(items, 1, Len(items))

\* fractions.Fraction(count, total): numerator and denominator reduced by gcd.
RECURSIVE Gcd(_, _)
Gcd(a, b) == IF b = 0 THEN a ELSE Gcd(b, a % b)

\* Variant of Fraction: the ratio as given, not reduced.
FractionUnreduced(count, total) == [numerator |-> count, denominator |-> total]

Fraction(count, total) ==
    LET g == Gcd(count, total)
    IN  [numerator |-> count \div g, denominator |-> total \div g]

\* One written statistics line: "genotype: count (numerator/denominator)".
StatsLine(item, total_items) ==
    LET frac == Fraction(item[2], total_items)
    IN  [genotype |-> item[1], count |-> item[2],
         numerator |-> frac.numerator, denominator |-> frac.denominator]

\* ------------------------------------------------------------------- state
VARIABLES
    pc,              \* position in generate
    err,             \* the error raised, "none" while there is none
    debug,           \* self.debug
    mommy, daddy,    \* the arguments, stripped by the first statement
    column_headers, row_headers,
    geno, counters, back_counter, terms, unused,   \* frame of _generate_headers
    data, iy, ix, x, y,                            \* the grid and its loops
    stats, ti, tj,   \* frame of print_stats: the dict and its two loops
    total_items,     \* sum(stats.values()), 0 until it is computed
    stdout_lines,    \* number of lines written to stdout
    stats_out        \* the statistics lines written, in order

vars == <<pc, err, debug, mommy, daddy, column_headers, row_headers,
          geno, counters, back_counter, terms, unused,
          data, iy, ix, x, y, stats, ti, tj, total_items, stdout_lines, stats_out>>

headerVars == <<geno, counters, back_counter, terms, unused>>
gridVars == <<data, iy, ix, x, y>>
statsVars == <<stats, ti, tj, total_items>>

Init ==
    /\ pc = "start"
    /\ err = "none"
    /\ debug \in BOOLEAN
    /\ mommy \in RawInputs
    /\ daddy \in RawInputs
    /\ column_headers = <<>>
    /\ row_headers = <<>>
    /\ geno = <<>>
    /\ counters = <<>>
    /\ back_counter = 0
    /\ terms = <<>>
    /\ unused = 0
    /\ data = <<>>
    /\ iy = 0
    /\ ix = 0
    /\ x = 0
    /\ y = 0
    /\ stats = <<>>
    /\ ti = 0
    /\ tj = 0
    /\ total_items = 0
    /\ stdout_lines = 0
    /\ stats_out = <<>>

\* Lines written by self.d(...) for one loop pass: three pprint calls.
DebugLines == IF debug THEN 3 ELSE 0

\* generate, lines 49-65: strip both arguments and validate their lengths.
Validate ==
    /\ pc = "start"
    /\ mommy' = strip(mommy)
    /\ daddy' = strip(daddy)
    /\ err' = ValidationError(Len(mommy'), Len(daddy'))
    /\ pc' = IF err' = "none" THEN "headers" ELSE "error"
    /\ UNCHANGED <<debug, column_headers, row_headers, headerVars, gridVars,
                   statsVars, stdout_lines, stats_out>>

\* generate, lines 70-73: the monohybrid branch.
Monohybrid ==
    /\ pc = "headers"
    /\ Len(mommy) \div 2 = 1
    /\ column_headers' = << <<mommy[1]>>, <<mommy[2]>> >>
    /\ row_headers' = << <<daddy[1]>>, <<daddy[2]>> >>
    /\ pc' = "grid"
    /\ UNCHANGED <<err, debug, mommy, daddy, headerVars, gridVars,
                   statsVars, stdout_lines, stats_out>>

\* _generate_headers, lines 109-118: the call (for the mother's genotype from
\* line 76, for the father's from line 77) and the set-up before the loop.
CallGenerateHeaders ==
    /\ pc \in {"headers", "call_row"}
    /\ pc = "headers" => Len(mommy) \div 2 # 1
    /\ geno' = IF pc = "headers" THEN mommy ELSE daddy
    /\ terms' = <<>>
    /\ IF ~is_even(Len(geno'))
       THEN /\ err' = "genotype_length_odd"
            /\ pc' = "error"
            /\ UNCHANGED <<counters, back_counter, unused>>
       ELSE /\ err' = err
            /\ pc' = IF pc = "headers" THEN "gen_col" ELSE "gen_row"
            /\ counters' = InitCounters(Len(gametes(geno')))
            /\ back_counter' = Len(gametes(geno')) - 1
            /\ unused' = 0
    /\ UNCHANGED <<debug, mommy, daddy, column_headers, row_headers, gridVars,
                   statsVars, stdout_lines, stats_out>>

\* Variant of NumTerms: range(2 * len(gametes)).
NumTermsLinear(n) == 2 * n

\* for unused in range(2 ** len(gametes))
NumTerms(n) == Pow2(n)

\* _generate_headers, lines 120-136: one pass of the loop. The term is built
\* and appended, then the counter pair at index -back_counter is flipped.
HeadersLoop ==
    /\ pc \in {"gen_col", "gen_row"}
    /\ unused < NumTerms(Len(gametes(geno)))
    /\ stdout_lines' = stdout_lines + DebugLines
    /\ terms' = Append(terms, Term(counters, gametes(geno)))
    /\ LET n == Len(counters)
           target == FlipTarget(back_counter, n)
       IN  IF target \notin 0 .. n - 1
           THEN /\ err' = "IndexError"
                /\ pc' = "error"
                /\ UNCHANGED <<counters, back_counter, unused>>
           ELSE IF \E k \in 1 .. 2 : counters[target + 1][k] \notin {0, 1}
           THEN /\ err' = "flip_num_not_1_or_0"
                /\ pc' = "error"
                /\ UNCHANGED <<counters, back_counter, unused>>
           ELSE /\ counters' = [counters EXCEPT ![target + 1] = <<flip(@[1]), flip(@[2])>>]
                /\ back_counter' = NextBackCounter(back_counter, Len(gametes(geno)))
                /\ unused' = unused + 1
                /\ UNCHANGED <<pc, err>>
    /\ UNCHANGED <<debug, mommy, daddy, column_headers, row_headers, geno, gridVars,
                   statsVars, stats_out>>

\* _generate_headers, line 137: return terms to generate (line 76 or 77).
HeadersReturn ==
    /\ pc \in {"gen_col", "gen_row"}
    /\ unused = NumTerms(Len(gametes(geno)))
    /\ IF pc = "gen_col"
       THEN column_headers' = terms /\ pc' = "call_row" /\ UNCHANGED row_headers
       ELSE row_headers' = terms /\ pc' = "grid" /\ UNCHANGED column_headers
    /\ geno' = <<>>
    /\ counters' = <<>>
    /\ back_counter' = 0
    /\ terms' = <<>>
    /\ unused' = 0
    /\ UNCHANGED <<err, debug, mommy, daddy, gridVars, statsVars, stdout_lines,
                   stats_out>>

\* generate, lines 79-88: the header lists are compared and the grid of None
\* is allocated.
AllocGrid ==
    /\ pc = "grid"
    /\ IF Len(column_headers) # Len(row_headers)
       THEN /\ err' = "headers_unequal"
            /\ pc' = "error"
            /\ UNCHANGED gridVars
       ELSE /\ data' = EmptyGrid(Len(column_headers))
            /\ pc' = IF Len(column_headers) = 0 THEN "print_table" ELSE "fill"
            /\ UNCHANGED <<err, iy, ix, x, y>>
    /\ UNCHANGED <<debug, mommy, daddy, column_headers, row_headers, headerVars,
                   statsVars, stdout_lines, stats_out>>

\* The value of y the loop body reads: the outer for statement binds y when a
\* row starts; within the row y keeps whatever the body last assigned.
BodyY(iter_x, iter_y, cur_y) == IF iter_x = 0 THEN iter_y ELSE cur_y

\* Variant of NextXY: the wrap-around test is one column early.
NextXYEarlyWrap(cur_x, cur_y, grid_size) ==
    IF cur_x + 1 = grid_size - 1 THEN <<0, cur_y + 1>> ELSE <<cur_x + 1, cur_y>>

\* Lines 99-102: x += 1; if x == grid_size: x = 0; y += 1
NextXY(cur_x, cur_y, grid_size) ==
    IF cur_x + 1 = grid_size THEN <<0, cur_y + 1>> ELSE <<cur_x + 1, cur_y>>

\* generate, lines 91-102: one pass of the inner loop. iy and ix are the
\* positions of the two range iterators; x and y are the loop variables,
\* which the body reassigns after the cell is stored.
FillCell ==
    /\ pc = "fill"
    /\ LET grid_size == Len(column_headers)
           bx == ix
           by == BodyY(ix, iy, y)
           last == ix + 1 = grid_size
       IN  IF bx \notin 0 .. grid_size - 1 \/ by \notin 0 .. grid_size - 1
           THEN /\ err' = "IndexError"
                /\ pc' = "error"
                /\ UNCHANGED gridVars
           ELSE /\ data' = [data EXCEPT ![by + 1][bx + 1] =
                                Cell(column_headers[bx + 1], row_headers[by + 1])]
                /\ x' = NextXY(bx, by, grid_size)[1]
                /\ y' = NextXY(bx, by, grid_size)[2]
                /\ ix' = IF last THEN 0 ELSE ix + 1
                /\ iy' = IF last THEN iy + 1 ELSE iy
                /\ pc' = IF last /\ iy + 1 = grid_size THEN "print_table" ELSE "fill"
                /\ UNCHANGED err
    /\ UNCHANGED <<debug, mommy, daddy, column_headers, row_headers, headerVars,
                   statsVars, stdout_lines, stats_out>>

\* Lines written by print_table: the top grid line, the column headers, the
\* separating grid line, one line per row, the final grid line.
TableLines(grid) == Len(grid) + 4

\* generate, lines 104-106: print_table (lines 151-198), the blank line, and
\* the call of print_stats with its empty dict (line 211).
PrintTable ==
    /\ pc = "print_table"
    /\ IF data = <<>>
       THEN /\ err' = "IndexError"
            /\ pc' = "error"
            /\ UNCHANGED stdout_lines
       ELSE IF ~is_even(Len(data[1][1]))
       THEN /\ err' = "cell_size_odd"
            /\ pc' = "error"
            /\ UNCHANGED stdout_lines
       ELSE /\ stdout_lines' = stdout_lines + TableLines(data) + 1
            /\ pc' = "tally"
            /\ UNCHANGED err
    /\ UNCHANGED <<debug, mommy, daddy, column_headers, row_headers, headerVars,
                   gridVars, statsVars, stats_out>>

\* print_stats, lines 213-220: one pass of the inner loop, which counts the
\* cell data[ti][tj].
TallyCell ==
    /\ pc = "tally"
    /\ stats' = Count(stats, data[ti + 1][tj + 1])
    /\ LET last == tj + 1 = Len(data[ti + 1])
       IN  /\ tj' = IF last THEN 0 ELSE tj + 1
           /\ ti' = IF last THEN ti + 1 ELSE ti
           /\ pc' = IF last /\ ti + 1 = Len(data) THEN "write_stats" ELSE "tally"
    /\ UNCHANGED <<err, debug, mommy, daddy, column_headers, row_headers, headerVars,
                   gridVars, total_items, stdout_lines, stats_out>>

\* print_stats, lines 223-227: the lines written for the dict, in order.
StatsLines(dict) ==
    LET sorted_stats == SortItems(dict)
    IN  [i \in DOMAIN sorted_stats |-> StatsLine(sorted_stats[i], SumCounts(sorted_stats))]

\* print_stats, lines 223-227: sort the dict, write one line per genotype.
WriteStats ==
    /\ pc = "write_stats"
    /\ total_items' = SumCounts(SortItems(stats))
    /\ stats_out' = StatsLines(stats)
    /\ stdout_lines' = stdout_lines + Len(stats_out')
    /\ pc' = "done"
    /\ UNCHANGED <<err, debug, mommy, daddy, column_headers, row_headers, headerVars,
                   gridVars, stats, ti, tj>>

Next ==
    \/ Validate
    \/ Monohybrid
    \/ CallGenerateHeaders
    \/ HeadersLoop
    \/ HeadersReturn
    \/ AllocGrid
    \/ FillCell
    \/ PrintTable
    \/ TallyCell
    \/ WriteStats

Spec == Init /\ [][Next]_vars

\* ------------------------------------------------------------ the claims
\* Number of loci of a genotype string, and allele b (1 or 2) of its locus i.
Loci(g) == Len(g) \div 2
Allele(g, i, b) == g[2 * (i - 1) + b]

\* The allele choices of independent assortment: first or second allele at
\* every locus; and the gamete a choice spells.
Selections(g) == [1 .. Loci(g) -> {1, 2}]
Gamete(g, sel) == [i \in 1 .. Loci(g) |-> Allele(g, i, sel[i])]

\* The header lists are complete from the allocation of the grid on.
HeadersBuilt == pc = "grid"

\* How often a list holds a gamete, and how many choices spell that gamete.
Occurrences(headers, t) == Cardinality({ k \in DOMAIN headers : headers[k] = t })
Spellings(g, t) == Cardinality({ sel \in Selections(g) : Gamete(g, sel) = t })

FullAssortment(g, headers) ==
    \A sel \in Selections(g) :
        Occurrences(headers, Gamete(g, sel)) = Spellings(g, Gamete(g, sel))

\* C1: the gamete list of a genotype holds every one of the 2^L allele choices
\* exactly once: each gamete occurs in the list as often as there are choices
\* spelling it (once when all loci are heterozygous), for mother and father.
C1_FullAssortment ==
    HeadersBuilt =>
        /\ FullAssortment(mommy, column_headers)
        /\ FullAssortment(daddy, row_headers)

\* Bit of locus i (1 = first locus = most significant) in the L-bit number k.
CounterBit(k, i, L) == (k \div Pow2(L - i)) % 2

BinaryCounterOrder(g, headers) ==
    /\ Len(headers) = Pow2(Loci(g))
    /\ \A k \in 0 .. Pow2(Loci(g)) - 1 : \A i \in 1 .. Loci(g) :
           headers[k + 1][i] = Allele(g, i, 1 + CounterBit(k, i, Loci(g)))

\* C2 as stated: the k-th gamete takes at locus i the first allele when bit i
\* of k is 0 and the second when it is 1, most significant bit = first locus.
C2_BinaryCounterOrder ==
    HeadersBuilt =>
        /\ BinaryCounterOrder(mommy, column_headers)
        /\ BinaryCounterOrder(daddy, row_headers)

\* Number of switches locus i (1 = first) has had when gamete k is emitted:
\* the j-th switch, j = 1 .. k, falls on the locus numbered j mod L from 0.
Switches(k, i, L) == Cardinality({ j \in 1 .. k : j % L = i - 1 })

FlipOrder(g, headers) ==
    /\ Len(headers) = Pow2(Loci(g))
    /\ \A k \in 0 .. Pow2(Loci(g)) - 1 : \A i \in 1 .. Loci(g) :
           headers[k + 1][i] = Allele(g, i, 1 + (Switches(k, i, Loci(g)) % 2))

\* C2 amended: gamete 0 takes the first allele at every locus, and gamete k is
\* gamete k-1 with the allele of the locus numbered k mod L (from 0) switched.
C2_FlipOrder ==
    HeadersBuilt =>
        /\ FlipOrder(mommy, column_headers)
        /\ FlipOrder(daddy, row_headers)

\* C2 witness: the headers of "AaBb" are AB, Ab, ab, aB.
C2_Witness ==
    /\ HeadersBuilt
    /\ mommy = <<"A", "a", "B", "b">>
    /\ column_headers = << <<"A", "B">>, <<"A", "b">>, <<"a", "b">>, <<"a", "B">> >>

\* A gamete of g: one character per locus, the i-th an allele of locus i.
IsGameteOf(t, g) ==
    /\ Len(t) = Loci(g)
    /\ \A i \in 1 .. Loci(g) : t[i] \in { Allele(g, i, 1), Allele(g, i, 2) }

WellFormedHeaders(g, headers) ==
    /\ Len(headers) = Pow2(Loci(g))
    /\ \A k \in DOMAIN headers : IsGameteOf(headers[k], g)

\* C3: gamete generation returns 2^L entries of L characters, the i-th an
\* allele of locus i; while it runs every counter pair is [1,0] or [0,1], the
\* index -back_counter addresses an existing locus, and no error is raised.
C3_GameteShape ==
    /\ err \notin {"IndexError", "genotype_length_odd", "flip_num_not_1_or_0"}
    /\ pc \in {"gen_col", "gen_row"} =>
           /\ \A i \in DOMAIN counters : counters[i] \in { <<1, 0>>, <<0, 1>> }
           /\ Len(counters) = Loci(geno)
           /\ back_counter \in 0 .. Loci(geno) - 1
           /\ Len(terms) = unused
           /\ unused <= Pow2(Loci(geno))
           /\ \A k \in DOMAIN terms : IsGameteOf(terms[k], geno)
    /\ pc \in {"call_row", "grid"} => WellFormedHeaders(mommy, column_headers)
    /\ pc = "grid" => WellFormedHeaders(daddy, row_headers)

\* C3 witness: the loop has run on a three-locus genotype, some pair flipped.
C3_Witness ==
    /\ pc = "gen_row"
    /\ Loci(geno) = 3
    /\ unused = 5
    /\ \E i \in DOMAIN counters : counters[i] = <<0, 1>>

\* cell holds the characters of s in ascending code-point order.
IsSortedArrangement(cell, s) ==
    /\ Len(cell) = Len(s)
    /\ \A i \in 1 .. Len(cell) - 1 : Ord(cell[i]) <= Ord(cell[i + 1])
    /\ \A c \in { s[i] : i \in DOMAIN s } :
           Cardinality({ i \in DOMAIN cell : cell[i] = c })
               = Cardinality({ i \in DOMAIN s : s[i] = c })

\* The cell of row r, column c (both from 0) is the cross of the c-th
\* gamete of the mother and the r-th gamete of the father.
CellCrossed(r, c) ==
    /\ data[r + 1][c + 1] # None
    /\ IsSortedArrangement(data[r + 1][c + 1], column_headers[c + 1] \o row_headers[r + 1])

SquareGrid(n) ==
    /\ Len(data) = n
    /\ \A r \in 1 .. n : Len(data[r]) = n

\* C4: the grid is 2^L by 2^L; while it is filled the cell whose turn it is
\* is still unset, the cell before it in row-major order holds its cross and
\* the row written is the row of the outer loop; once filled, every cell
\* data[y][x] holds the sorted characters of column_headers[x] and
\* row_headers[y]; no index leaves the grid.
C4_GridFilled ==
    /\ err \notin {"IndexError", "headers_unequal"}
    /\ pc = "fill" =>
           /\ SquareGrid(Pow2(Loci(mommy)))
           /\ Len(column_headers) = Len(data) /\ Len(row_headers) = Len(data)
           /\ iy \in 0 .. Len(data) - 1 /\ ix \in 0 .. Len(data) - 1
           /\ data[iy + 1][ix + 1] = None
           /\ ix > 0 => /\ y = iy
                        /\ x = ix
                        /\ CellCrossed(iy, ix - 1)
           /\ (ix = 0 /\ iy > 0) => CellCrossed(iy - 1, Len(data) - 1)
    /\ pc = "print_table" =>
           /\ SquareGrid(Pow2(Loci(mommy)))
           /\ \A r \in 0 .. Len(data) - 1 : \A c \in 0 .. Len(data) - 1 : CellCrossed(r, c)

\* C4 witness: a filled 4 by 4 grid whose last row starts with ABBa.
C4_Witness ==
    /\ pc = "print_table"
    /\ Len(data) = 4
    /\ data[4][1] = <<"A", "B", "B", "a">>
    /\ y = 4 /\ x = 0

InvalidLengthErrors ==
    {"mommy_odd_length", "daddy_odd_length", "genotype_count_less_than_one"}

\* Either trimmed genotype is empty or of odd length.
EmptyOrOdd == Len(mommy) = 0 \/ Len(daddy) = 0 \/ Len(mommy) % 2 = 1 \/ Len(daddy) % 2 = 1

\* C5 as stated: whenever either trimmed genotype is empty or odd, the error
\* is the invalid-length error, also when the two lengths differ.
C5_InvalidLengthAlways ==
    (pc # "start" /\ EmptyOrOdd) => (pc = "error" /\ err \in InvalidLengthErrors)

\* C5 amended: equal trimmed lengths that are odd or zero raise the
\* invalid-length error; different trimmed lengths raise the
\* mismatched-lengths error, also when one of them is empty or odd.
C5_LengthErrors ==
    pc # "start" =>
        /\ Len(mommy) # Len(daddy) => (pc = "error" /\ err = "mismatched_length")
        /\ (Len(mommy) = Len(daddy) /\ Len(mommy) % 2 = 1) =>
               (pc = "error" /\ err = "mommy_odd_length")
        /\ (Len(mommy) = Len(daddy) /\ Len(mommy) = 0) =>
               (pc = "error" /\ err = "genotype_count_less_than_one")

\* C5 witness: two genotypes of the same odd length were rejected.
C5_Witness ==
    /\ pc = "error"
    /\ mommy = <<"A">>
    /\ daddy = <<"A">>
    /\ err = "mommy_odd_length"

\* Nothing was generated and nothing was written.
NothingDone ==
    /\ stdout_lines = 0
    /\ stats_out = <<>>
    /\ column_headers = <<>> /\ row_headers = <<>>
    /\ terms = <<>> /\ counters = <<>>
    /\ data = <<>> /\ stats = <<>>

\* C6: inputs whose trimmed lengths differ, or are zero or odd, fail before
\* any generation and with nothing written (different lengths with the
\* mismatched-lengths error); inputs that pass validation raise no error.
C6_FailBeforeOutput ==
    pc # "start" =>
        /\ (Len(mommy) # Len(daddy) \/ EmptyOrOdd) =>
               (pc = "error" /\ err # "none" /\ NothingDone)
        /\ Len(mommy) # Len(daddy) => err = "mismatched_length"
        /\ ~(Len(mommy) # Len(daddy) \/ EmptyOrOdd) => (pc # "error" /\ err = "none")
        /\ stdout_lines > 0 => err = "none"

\* C6 witness: mother "Aa" and father "AaBb" were rejected, nothing written.
C6_Witness ==
    /\ pc = "error"
    /\ mommy = <<"A", "a">>
    /\ daddy = <<"A", "a", "B", "b">>
    /\ err = "mismatched_length"
    /\ stdout_lines = 0

\* The documented sample: headers, grid rows and statistics of AaBb x AaBb.
SampleHeaders == << <<"A", "B">>, <<"A", "b">>, <<"a", "b">>, <<"a", "B">> >>

SampleGrid ==
    << << <<"A","A","B","B">>, <<"A","A","B","b">>, <<"A","B","a","b">>, <<"A","B","B","a">> >>,
       << <<"A","A","B","b">>, <<"A","A","b","b">>, <<"A","a","b","b">>, <<"A","B","a","b">> >>,
       << <<"A","B","a","b">>, <<"A","a","b","b">>, <<"a","a","b","b">>, <<"B","a","a","b">> >>,
       << <<"A","B","B","a">>, <<"A","B","a","b">>, <<"B","a","a","b">>, <<"B","B","a","a">> >> >>

SampleLine(g, n, num, den) ==
    [genotype |-> g, count |-> n, numerator |-> num, denominator |-> den]

SampleStats ==
    << SampleLine(<<"A","A","B","B">>, 1, 1, 16),
       SampleLine(<<"A","A","B","b">>, 2, 1, 8),
       SampleLine(<<"A","A","b","b">>, 1, 1, 16),
       SampleLine(<<"A","B","B","a">>, 2, 1, 8),
       SampleLine(<<"A","B","a","b">>, 4, 1, 4),
       SampleLine(<<"A","a","b","b">>, 2, 1, 8),
       SampleLine(<<"B","B","a","a">>, 1, 1, 16),
       SampleLine(<<"B","a","a","b">>, 2, 1, 8),
       SampleLine(<<"a","a","b","b">>, 1, 1, 16) >>

IsSample == mommy = <<"A", "a", "B", "b">> /\ daddy = <<"A", "a", "B", "b">>

\* C7: crossing "AaBb" with "AaBb" gives the documented headers AB, Ab, ab,
\* aB, the documented 4 by 4 grid and the nine documented statistics lines in
\* the documented order, the counts adding up to 16.
C7_SampleOutput ==
    IsSample =>
        /\ pc \in {"fill", "print_table", "tally", "write_stats", "done"} =>
               (column_headers = SampleHeaders /\ row_headers = SampleHeaders)
        /\ pc \in {"print_table", "tally", "write_stats", "done"} => data = SampleGrid
        /\ pc = "done" => (stats_out = SampleStats /\ total_items = 16)
        /\ pc # "error"

\* C7 witness: the sample run has finished and written nine lines.
C7_Witness == IsSample /\ pc = "done" /\ Len(stats_out) = 9 /\ ~debug

\* The places of the grid, and the number of cells holding a genotype.
Places == { <<r, c>> : r \in DOMAIN data, c \in DOMAIN data }
CellsHolding(g) == Cardinality({ p \in Places : data[p[1]][p[2]] = g })

\* Sum of the counts of the statistics lines lo .. hi.
RECURSIVE CountsAdded(_, _)
CountsAdded(lo, hi) ==
    IF lo > hi THEN 0
    ELSE IF lo = hi THEN stats_out[lo].count
    ELSE CountsAdded(lo, (lo + hi) \div 2) + CountsAdded((lo + hi) \div 2 + 1, hi)

\* C8: each statistics line counts the grid cells holding its genotype, and
\* the counts add up to grid_size squared, which is what total_items holds.
C8_TallyConservation ==
    pc = "done" =>
        /\ \A i \in DOMAIN stats_out :
               stats_out[i].count = CellsHolding(stats_out[i].genotype)
        /\ CountsAdded(1, Len(stats_out)) = Len(data) * Len(data)
        /\ total_items = Len(data) * Len(data)

\* C8 witness: a finished 8 by 8 run with a genotype counted more than once.
C8_Witness ==
    /\ pc = "done"
    /\ Len(data) = 8
    /\ \E i \in DOMAIN stats_out : stats_out[i].count > 1

\* C9: every written fraction has a denominator > 0, no common divisor of
\* numerator and denominator above 1, and equals count / grid_size squared.
C9_ReducedFraction ==
    pc = "done" =>
        \A i \in DOMAIN stats_out :
            LET e == stats_out[i]
            IN  /\ e.numerator \in Nat /\ e.denominator \in Nat
                /\ e.denominator > 0
                /\ \A d \in 2 .. e.numerator :
                       ~(e.numerator % d = 0 /\ e.denominator % d = 0)
                /\ e.numerator * (Len(data) * Len(data)) = e.count * e.denominator

\* C9 witness: a written fraction that had to be reduced (2/4 written 1/2).
C9_Witness ==
    /\ pc = "done"
    /\ \E i \in DOMAIN stats_out :
           /\ stats_out[i].count = 2
           /\ stats_out[i].numerator = 1
           /\ stats_out[i].denominator = 2

\* a < b in the order of strings: at the first place they differ a has the
\* smaller character, or a ends there.
Before(a, b) ==
    \E k \in 1 .. Len(b) :
        /\ \A i \in 1 .. k - 1 : i <= Len(a) /\ a[i] = b[i]
        /\ k > Len(a) \/ Ord(a[k]) < Ord(b[k])

\* C10: the statistics lines hold exactly the genotypes of the grid, one line
\* each, in strictly ascending string order (uppercase before lowercase).
C10_SortedDistinct ==
    pc = "done" =>
        /\ \A i \in 1 .. Len(stats_out) - 1 :
               Before(stats_out[i].genotype, stats_out[i + 1].genotype)
        /\ { stats_out[i].genotype : i \in DOMAIN stats_out }
               = { data[p[1]][p[2]] : p \in Places }

\* C10 witness: the lines were written in another order than the genotypes
\* were first met in the grid, an uppercase-first genotype before a lowercase.
C10_Witness ==
    /\ pc = "done"
    /\ \E i, j \in DOMAIN stats : i < j /\ Before(stats[j][1], stats[i][1])
    /\ \E i \in 1 .. Len(stats_out) - 1 :
           /\ stats_out[i].genotype[1] \in { Upper[k] : k \in DOMAIN Upper }
           /\ stats_out[i + 1].genotype[1] \in { Lower[k] : k \in DOMAIN Lower }

====
